---- MODULE Spec2Model ----
(***************************************************************************)
(* Postgres background job queue (src/bgworker/pg.rs): the pg_loco_queue   *)
(* table, the claim transaction of dequeue, the worker loop of             *)
(* JobRegistry::run and the maintenance API.                               *)
(*                                                                         *)
(* Time is the database clock in ticks of one minute.  NOW() inside a      *)
(* transaction is the transaction's start time (PostgreSQL), NOW() of an   *)
(* auto-committed statement is the clock at the statement.  Utc::now() of  *)
(* the application is within MaxSkew ticks of the database clock.          *)
(*                                                                         *)
(* Rust Option<T> is a sequence of length 0 (None) or 1 (Some).  A JSONB   *)
(* column that may be NULL is modelled the same way.                       *)
(***************************************************************************)
EXTENDS Integers, Sequences, FiniteSets, TLC

\* ---------------------------------------------------------------- bounds
MaxJobs == 1
MaxPoolJobs == 2
MaxTime == 1
NumWorkers == 2
MaxSkew == 1
MaxRunAt == 1
MaxAge == 1
MaxInterval == 1

\* ------------------------------------------------------- unit conversions
MsPerMinute == 60000
MinutesPerDay == 1440

\* ---------------------------------------------------------------- values
None == <<>>
Some(x) == <<x>>
IsSome(o) == Len(o) = 1
Unwrap(o) == o[1]

Queued == "queued"
Processing == "processing"
Completed == "completed"
Failed == "failed"
Cancelled == "cancelled"
JobStatus == {Queued, Processing, Completed, Failed, Cancelled}

Workers == 1..NumWorkers
Times == 0..MaxTime
Skews == (0 - MaxSkew)..MaxSkew

\* Inputs of enqueue, register_worker and run.
Names == {"A", "B"}
WorkerNames == {"A"}
WorkerImpls == {"W1", "W2"}
Payloads == {"object", "null"}
RunAts == 0..MaxRunAt
Intervals == {None, Some(MaxInterval)}
JobTags == {None, Some(<<>>), Some(<<"x">>), Some(<<"x", "y">>)}
WorkerTags == {<<>>, <<"x">>, <<"z", "y">>}
AgeArgs == 0..MaxAge
StatusLists == {<<>>, <<Completed>>, <<Completed, Failed>>, <<Cancelled, Queued>>}

\* perform's outcomes: Ok(()), Err(e), panic!(String or &str), panic of another payload.
PerformOk == "ok"
PerformErr == "perform error"
PanicMsg == "intentional panic"
PanicOther == "panic payload"
PerformOutcomes == {PerformOk, PerformErr, PanicMsg, PanicOther}
UnknownPanic == "Unknown panic occurred"
DeserError == "invalid type"

SeqToSet(s) == {s[i] : i \in 1..Len(s)}

\* ------------------------------------------------------------- variables
VARIABLES
    rows,       \* pg_loco_queue: id -> row, committed state
    nextId,     \* number of ids Ulid::new() has produced, plus one
    now,        \* the database clock
    handlers,   \* JobRegistry.handlers: name -> the worker its handler wraps
    wtags,      \* the tags given to run
    cancelled,  \* the CancellationToken
    wpc,        \* each worker task's position in the loop of run
    wjob,       \* each worker's Option<Job> (dequeue's row, then job_opt)
    wtx         \* each worker's open claim transaction: Some(its NOW()), or None

vars == <<rows, nextId, now, handlers, wtags, cancelled, wpc, wjob, wtx>>
tableVars == <<rows, nextId>>
registryVars == <<handlers, wtags>>
workerVars == <<wpc, wjob, wtx>>

Ids == DOMAIN rows
Job(w) == Unwrap(wjob[w])
TxNow(w) == Unwrap(wtx[w])

\* The row lock of SELECT ... FOR UPDATE: held by a worker from its select
\* to the end of its transaction.
LockedBy(id) == {w \in Workers : wpc[w] = "update" /\ Job(w).id = id}

\* The select without FOR UPDATE SKIP LOCKED: no row is ever seen as locked.
LockedMutant(id) == FALSE

\* A row some open claim transaction has locked.
Locked(id) == LockedBy(id) # {}

\* The worker tasks that hold a clone of the Arc of handlers.
Live(w) == wpc[w] \notin {"unspawned", "exited", "dead"}

\* --------------------------------------------------------- pure functions

\* enqueue: tags.as_ref().map(|t| serde_json::to_value(t)): None is NULL,
\* Some(list) is the JSON array of the list, the empty list included.
TagsJson(tags) == IF IsSome(tags) THEN Some(Unwrap(tags)) ELSE None

\* enqueue binding the interval without the conversion to milliseconds.
IntervalMsMutant(interval) == interval

\* enqueue: interval.map(|i| i.as_millis() as i64), of a Duration given in minutes.
IntervalMs(interval) == IF IsSome(interval) THEN Some(Unwrap(interval) * MsPerMinute) ELSE None

\* chrono::Duration::milliseconds(interval_ms) on the clock's scale.
Milliseconds(interval_ms) == interval_ms \div MsPerMinute

\* to_job: a JSON array decodes to its list, and an empty list or anything
\* else yields None.
ToJobTags(tags_json) ==
    IF IsSome(tags_json) /\ Len(Unwrap(tags_json)) > 0 THEN Some(Unwrap(tags_json)) ELSE None

\* to_job on the columns dequeue selects.
ToJob(id, row) ==
    [id |-> id, name |-> row.name, data |-> row.data, status |-> row.status,
     run_at |-> row.run_at, interval |-> row.interval, tags |-> ToJobTags(row.tags)]

\* The tag condition built from the worker's first tag alone.
TagPredicateMutant(worker_tags, tags_json) ==
    IF Len(worker_tags) = 0
    THEN ~IsSome(tags_json)
    ELSE IsSome(tags_json) /\ worker_tags[1] \in SeqToSet(Unwrap(tags_json))

\* dequeue's tag condition: tags IS NULL for a worker without tags, else
\* tags IS NOT NULL and one of the worker's tags is an element of the array.
TagPredicate(worker_tags, tags_json) ==
    IF Len(worker_tags) = 0
    THEN ~IsSome(tags_json)
    ELSE /\ IsSome(tags_json)
         /\ \E i \in 1..Len(worker_tags) : worker_tags[i] \in SeqToSet(Unwrap(tags_json))

\* task_data || {"error": msg}: an object gets the key set (overwritten),
\* any other JSON becomes an array with the error object appended.
JsonConcatError(data, msg) ==
    IF data.base = "object"
    THEN [data EXCEPT !.errors = <<msg>>]
    ELSE [data EXCEPT !.errors = Append(@, msg)]

\* serde_json::from_value::<Args>(job_data) for a struct Args: an object
\* deserializes (unknown keys are ignored), null and arrays do not.
FromValueOk(data) == data.base = "object"

\* The wrapped handler without the downcast of the panic payload.
HandlerResultMutant(data, outcome) ==
    IF ~FromValueOk(data) THEN Some(DeserError)
    ELSE IF outcome = PerformOk THEN None
    ELSE IF outcome = PerformErr THEN Some(PerformErr)
    ELSE Some(UnknownPanic)

\* The wrapped handler's result from perform's outcome.
HandlerResult(data, outcome) ==
    IF ~FromValueOk(data) THEN Some(DeserError)
    ELSE IF outcome = PerformOk THEN None
    ELSE IF outcome = PerformErr THEN Some(PerformErr)
    ELSE IF outcome = PanicMsg THEN Some(PanicMsg)
    ELSE Some(UnknownPanic)

\* ------------------------------------------------------------------ Init
Init ==
    /\ rows = <<>>
    /\ nextId = 1
    /\ now = 0
    /\ handlers = [name \in {} |-> "W1"]
    /\ wtags = <<>>
    /\ cancelled = FALSE
    /\ wpc = [w \in Workers |-> "unspawned"]
    /\ wjob = [w \in Workers |-> None]
    /\ wtx = [w \in Workers |-> None]

\* ----------------------------------------------------------- environment

\* The database clock advances.
Tick ==
    /\ now < MaxTime
    /\ now' = now + 1
    /\ UNCHANGED <<tableVars, registryVars, cancelled, workerVars>>

\* token.cancel()
CancelToken ==
    /\ ~cancelled
    /\ cancelled' = TRUE
    /\ UNCHANGED <<tableVars, now, registryVars, workerVars>>

\* -------------------------------------------------------------- registry

\* HashMap::insert: the entry of the name is set, replacing one that exists.
Insert(map, name, worker) == (name :> worker) @@ map

\* register_worker with the insert done whether or not the map is shared.
RegisterWorkerMutant(name, worker) ==
    /\ handlers' = Insert(handlers, name, worker)
    /\ UNCHANGED <<tableVars, now, wtags, cancelled, workerVars>>

\* register_worker: Arc::get_mut succeeds only while no worker task holds a
\* clone of the handlers, and then the name is inserted; else the function
\* returns the error "cannot register worker" and the map is as it was.
RegisterWorker(name, worker) ==
    /\ handlers' = IF \A w \in Workers : ~Live(w)
                   THEN Insert(handlers, name, worker)
                   ELSE handlers
    /\ UNCHANGED <<tableVars, now, wtags, cancelled, workerVars>>

\* run: spawns num_workers tasks, each with a clone of the handlers, the
\* token and the tags.
Run(tags) ==
    /\ \A w \in Workers : wpc[w] = "unspawned"
    /\ wtags' = tags
    /\ wpc' = [w \in Workers |-> "check"]
    /\ UNCHANGED <<tableVars, now, handlers, cancelled, wjob, wtx>>

\* ------------------------------------------------------- maintenance API

\* enqueue: one INSERT; status, created_at and updated_at take the column defaults.
Enqueue(name, payload, run_at, interval, tags) ==
    /\ rows' = (nextId :> [name |-> name,
                           data |-> [base |-> payload, errors |-> <<>>],
                           status |-> Queued,
                           run_at |-> run_at,
                           interval |-> IntervalMs(interval),
                           created_at |-> now,
                           updated_at |-> now,
                           tags |-> TagsJson(tags)]) @@ rows
    /\ nextId' = nextId + 1
    /\ UNCHANGED <<now, registryVars, cancelled, workerVars>>

\* An UPDATE or DELETE that writes rows whatever locks are held on them.
NoneLockedMutant(S) == TRUE

\* An UPDATE or DELETE waits for the row locks of open claim transactions
\* on the rows it matches.
NoneLocked(S) == \A id \in S : ~Locked(id)

\* cancel_jobs_by_name without AND status = 'queued'.
CancelMatchMutant(name) == {id \in Ids : rows[id].name = name}

\* cancel_jobs_by_name: UPDATE ... WHERE name = $2 AND status = 'queued'
CancelMatch(name) == {id \in Ids : rows[id].name = name /\ rows[id].status = Queued}

\* cancel_jobs_by_name without updated_at = NOW().
CancelWriteMutant(row) == [row EXCEPT !.status = Cancelled]

\* cancel_jobs_by_name: SET status = 'cancelled', updated_at = NOW()
CancelWrite(row) == [row EXCEPT !.status = Cancelled, !.updated_at = now]
CancelJobsByName(name) ==
    /\ NoneLocked(CancelMatch(name))
    /\ rows' = [id \in Ids |-> IF id \in CancelMatch(name) THEN CancelWrite(rows[id]) ELSE rows[id]]
    /\ UNCHANGED <<nextId, now, registryVars, cancelled, workerVars>>

\* DELETE of the rows in S.
Delete(S) ==
    /\ NoneLocked(S)
    /\ rows' = [id \in Ids \ S |-> rows[id]]
    /\ UNCHANGED <<nextId, now, registryVars, cancelled, workerVars>>

\* clear: DELETE FROM pg_loco_queue
Clear == Delete(Ids)

\* clear_by_status with an empty list taken as no filter.
ClearByStatusMatchMutant(status) ==
    IF Len(status) = 0 THEN Ids ELSE {id \in Ids : rows[id].status \in SeqToSet(status)}

\* clear_by_status: DELETE ... WHERE status = ANY($1)
ClearByStatusMatch(status) == {id \in Ids : rows[id].status \in SeqToSet(status)}
ClearByStatus(status) == Delete(ClearByStatusMatch(status))

\* clear_jobs_older_than: DELETE ... WHERE created_at < NOW() - age_days days,
\* and AND status IN (...) only for a status list that is given and not empty.
OlderThanMatch(age_days, status) ==
    {id \in Ids :
        /\ rows[id].created_at < now - age_days * MinutesPerDay
        /\ (IsSome(status) /\ Len(Unwrap(status)) > 0)
              => rows[id].status \in SeqToSet(Unwrap(status))}
ClearJobsOlderThan(age_days, status) == Delete(OlderThanMatch(age_days, status))

\* requeue with updated_at < in place of <=.
RequeueMatchMutant(age_minutes) ==
    {id \in Ids : rows[id].status = Processing /\ rows[id].updated_at < now - age_minutes}

\* requeue: UPDATE ... WHERE status = 'processing' AND updated_at <= NOW() - age_minutes
RequeueMatch(age_minutes) ==
    {id \in Ids : rows[id].status = Processing /\ rows[id].updated_at <= now - age_minutes}

\* requeue without updated_at = NOW().
RequeueWriteMutant(row) == [row EXCEPT !.status = Queued]

\* requeue: SET status = 'queued', updated_at = NOW()
RequeueWrite(row) == [row EXCEPT !.status = Queued, !.updated_at = now]
Requeue(age_minutes) ==
    /\ rows' = [id \in Ids |-> IF id \in RequeueMatch(age_minutes) THEN RequeueWrite(rows[id]) ELSE rows[id]]
    /\ UNCHANGED <<nextId, now, registryVars, cancelled, workerVars>>

\* ------------------------------------------------------------ worker loop

\* The loop with the token polled during the handler too: a cancelled
\* worker drops its job and exits.
CheckCancelledMutant(w) ==
    /\ wpc[w] \in {"check", "handler"}
    /\ wpc[w] = "handler" => cancelled
    /\ IF cancelled
       THEN /\ wpc' = [wpc EXCEPT ![w] = "exited"]
            /\ wjob' = [wjob EXCEPT ![w] = None]
            /\ wtx' = wtx
       ELSE /\ wpc' = [wpc EXCEPT ![w] = "select"]
            /\ wjob' = wjob
            /\ wtx' = [wtx EXCEPT ![w] = Some(now)]
    /\ UNCHANGED <<tableVars, now, registryVars, cancelled>>

\* run, top of the loop: if worker_token.is_cancelled() { break }, else
\* dequeue starts: client.begin().
CheckCancelled(w) ==
    /\ wpc[w] = "check"
    /\ IF cancelled
       THEN /\ wpc' = [wpc EXCEPT ![w] = "exited"]
            /\ wtx' = wtx
       ELSE /\ wpc' = [wpc EXCEPT ![w] = "select"]
            /\ wtx' = [wtx EXCEPT ![w] = Some(now)]
    /\ UNCHANGED <<tableVars, now, registryVars, cancelled, wjob>>

\* dequeue's WHERE clause without status = 'queued'.
EligibleMutant(w) ==
    {id \in Ids :
        /\ rows[id].run_at <= TxNow(w)
        /\ TagPredicate(wtags, rows[id].tags)
        /\ ~Locked(id)}

\* dequeue's WHERE clause with the locked rows as candidates too.
EligibleLockedMutant(w) ==
    {id \in Ids :
        /\ rows[id].status = Queued
        /\ rows[id].run_at <= TxNow(w)
        /\ TagPredicate(wtags, rows[id].tags)}

\* dequeue's WHERE clause, on the rows no other transaction has locked.
Eligible(w) ==
    {id \in Ids :
        /\ rows[id].status = Queued
        /\ rows[id].run_at <= TxNow(w)
        /\ TagPredicate(wtags, rows[id].tags)
        /\ ~Locked(id)}

\* LIMIT 1 without ORDER BY run_at.
EarliestMutant(S) == S

\* ORDER BY run_at LIMIT 1: a row of least run_at (which one of several is the database's choice).
Earliest(S) == {id \in S : \A other \in S : rows[id].run_at <= rows[other].run_at}

\* dequeue: SELECT ... FOR UPDATE SKIP LOCKED, fetch_optional, to_job.
\* Without a row the function returns Ok(None), the transaction is dropped
\* and run goes to its select! on the token and the sleep.
DequeueSelect(w) ==
    /\ wpc[w] = "select"
    /\ IF Eligible(w) = {}
       THEN /\ wjob' = wjob
            /\ wtx' = [wtx EXCEPT ![w] = None]
            /\ wpc' = [wpc EXCEPT ![w] = "sleep"]
       ELSE \E id \in Earliest(Eligible(w)) :
            /\ wjob' = [wjob EXCEPT ![w] = Some(ToJob(id, rows[id]))]
            /\ wtx' = wtx
            /\ wpc' = [wpc EXCEPT ![w] = "update"]
    /\ UNCHANGED <<tableVars, now, registryVars, cancelled>>

\* What the claim transaction writes to its row.
ClaimWrite(row, tx_now) == [row EXCEPT !.status = Processing, !.updated_at = tx_now]

\* A lookup that finds a handler for every name.
HasHandlerMutant(name) == TRUE

\* run: handlers.get(&job.name)
HasHandler(name) == name \in DOMAIN handlers

\* dequeue: the UPDATE to 'processing' with updated_at = NOW(), tx.commit()
\* and Ok(Some(job)); run: the handler lookup.  A job without a handler is
\* logged and the loop iterates.
DequeueCommit(w) ==
    /\ wpc[w] = "update"
    /\ rows' = [rows EXCEPT ![Job(w).id] = ClaimWrite(@, TxNow(w))]
    /\ wtx' = [wtx EXCEPT ![w] = None]
    /\ IF HasHandler(Job(w).name)
       THEN /\ wpc' = [wpc EXCEPT ![w] = "handler"]
            /\ wjob' = wjob
       ELSE /\ wpc' = [wpc EXCEPT ![w] = "check"]
            /\ wjob' = [wjob EXCEPT ![w] = None]
    /\ UNCHANGED <<nextId, now, registryVars, cancelled>>

\* An error of dequeue after the UPDATE, with the UPDATE left in the table.
DequeueErrorWriteMutant(w) ==
    /\ wpc[w] \in {"select", "update"}
    /\ rows' = IF wpc[w] = "update"
               THEN [rows EXCEPT ![Job(w).id] = ClaimWrite(@, TxNow(w))]
               ELSE rows
    /\ wjob' = [wjob EXCEPT ![w] = None]
    /\ wtx' = [wtx EXCEPT ![w] = None]
    /\ wpc' = [wpc EXCEPT ![w] = "sleep"]
    /\ UNCHANGED <<nextId, now, registryVars, cancelled>>

\* The error of dequeue propagated out of the worker task.
DequeueErrorMutant(w) ==
    /\ wpc[w] \in {"select", "update"}
    /\ wjob' = [wjob EXCEPT ![w] = None]
    /\ wtx' = [wtx EXCEPT ![w] = None]
    /\ wpc' = [wpc EXCEPT ![w] = "exited"]
    /\ UNCHANGED <<tableVars, now, registryVars, cancelled>>

\* dequeue: begin, the select, the update or the commit returns an error
\* (the ? operator): the transaction is rolled back, run logs the error,
\* takes None and goes to its select! on the token and the sleep.
DequeueError(w) ==
    /\ wpc[w] \in {"select", "update"}
    /\ wjob' = [wjob EXCEPT ![w] = None]
    /\ wtx' = [wtx EXCEPT ![w] = None]
    /\ wpc' = [wpc EXCEPT ![w] = "sleep"]
    /\ UNCHANGED <<tableVars, now, registryVars, cancelled>>

\* complete_job that ignores the interval.
CompleteStatusMutant(interval_ms) == Completed

\* complete_job's status from interval_ms.
CompleteStatus(interval_ms) == IF IsSome(interval_ms) THEN Queued ELSE Completed

\* complete_job that does not add the interval to run_at.
CompleteRunAtMutant(interval_ms, utc_now) == utc_now

\* complete_job's run_at: Utc::now(), plus the interval of a periodic job.
CompleteRunAt(interval_ms, utc_now) ==
    IF IsSome(interval_ms) THEN utc_now + Milliseconds(Unwrap(interval_ms)) ELSE utc_now

\* complete_job: UPDATE ... SET status, updated_at = NOW(), run_at WHERE id = $3
CompleteWrite(row, interval_ms, utc_now) ==
    [row EXCEPT !.status = CompleteStatus(interval_ms),
                !.updated_at = now,
                !.run_at = CompleteRunAt(interval_ms, utc_now)]

\* fail_job without the task_data assignment.
FailWriteMutant(row, msg) == [row EXCEPT !.status = Failed, !.updated_at = now]

\* fail_job: UPDATE ... SET status = 'failed', updated_at = NOW(),
\* task_data = task_data || {"error": msg} WHERE id = $3
FailWrite(row, msg) ==
    [row EXCEPT !.status = Failed,
                !.updated_at = now,
                !.data = JsonConcatError(@, msg)]

\* The worker waits for the poll interval after every job.
IterateMutant(w) ==
    /\ wpc' = [wpc EXCEPT ![w] = "sleep"]
    /\ wjob' = [wjob EXCEPT ![w] = None]
    /\ wtx' = wtx

\* The worker is done with its job: the next iteration of the loop.
Iterate(w) ==
    /\ wpc' = [wpc EXCEPT ![w] = "check"]
    /\ wjob' = [wjob EXCEPT ![w] = None]
    /\ wtx' = wtx

\* complete_job as an upsert: a row that is gone is inserted again from the job.
CompleteJobMutant(w, utc_now) ==
    /\ wpc[w] = "handler"
    /\ HandlerResult(Job(w).data, PerformOk) = None
    /\ ~Locked(Job(w).id)
    /\ rows' = (Job(w).id :>
                  CompleteWrite([name |-> Job(w).name,
                                 data |-> Job(w).data,
                                 status |-> Processing,
                                 run_at |-> Job(w).run_at,
                                 interval |-> Job(w).interval,
                                 created_at |-> now,
                                 updated_at |-> now,
                                 tags |-> Job(w).tags],
                                Job(w).interval, utc_now)) @@ rows
    /\ Iterate(w)
    /\ UNCHANGED <<nextId, now, registryVars, cancelled>>

\* run: handler(job.id, job.data) returns Ok(()), then
\* complete_job(&pool, &job.id, job.interval).  The UPDATE matches by id
\* alone; it changes nothing when the row is gone.
CompleteJob(w, utc_now) ==
    /\ wpc[w] = "handler"
    /\ HandlerResult(Job(w).data, PerformOk) = None
    /\ ~Locked(Job(w).id)
    /\ rows' = [id \in Ids |->
                  IF id = Job(w).id THEN CompleteWrite(rows[id], Job(w).interval, utc_now) ELSE rows[id]]
    /\ Iterate(w)
    /\ UNCHANGED <<nextId, now, registryVars, cancelled>>

\* run: handler(job.id, job.data) returns Err(err) (from_value failed,
\* perform returned an error or panicked), then fail_job(&pool, &job.id, &err).
FailJob(w, outcome) ==
    /\ wpc[w] = "handler"
    /\ IsSome(HandlerResult(Job(w).data, outcome))
    /\ ~Locked(Job(w).id)
    /\ rows' = [id \in Ids |->
                  IF id = Job(w).id
                  THEN FailWrite(rows[id], Unwrap(HandlerResult(Job(w).data, outcome)))
                  ELSE rows[id]]
    /\ Iterate(w)
    /\ UNCHANGED <<nextId, now, registryVars, cancelled>>

\* run: the handler returned and complete_job or fail_job returns a
\* database error: logged, the loop iterates.
TransitionError(w) ==
    /\ wpc[w] = "handler"
    /\ Iterate(w)
    /\ UNCHANGED <<tableVars, now, registryVars, cancelled>>

\* The wait without the sleep arm: only the cancellation ends it.
SleepCancelOnlyMutant(w) ==
    /\ wpc[w] = "sleep"
    /\ cancelled
    /\ wpc' = [wpc EXCEPT ![w] = "exited"]
    /\ UNCHANGED <<tableVars, now, registryVars, cancelled, wjob, wtx>>

\* select! without biased, the sleep ready together with the cancellation.
SleepMutant(w) ==
    /\ wpc[w] = "sleep"
    /\ \E next \in {"exited", "check"} : wpc' = [wpc EXCEPT ![w] = next]
    /\ UNCHANGED <<tableVars, now, registryVars, cancelled, wjob, wtx>>

\* run, no job: select! { biased; cancelled() => break, sleep(interval) => {} }
Sleep(w) ==
    /\ wpc[w] = "sleep"
    /\ wpc' = [wpc EXCEPT ![w] = IF cancelled THEN "exited" ELSE "check"]
    /\ UNCHANGED <<tableVars, now, registryVars, cancelled, wjob, wtx>>

\* The worker task is killed (the process dies or the JoinHandle is
\* aborted): an open transaction is rolled back by the database.
Crash(w) ==
    /\ Live(w)
    /\ wpc' = [wpc EXCEPT ![w] = "dead"]
    /\ wjob' = [wjob EXCEPT ![w] = None]
    /\ wtx' = [wtx EXCEPT ![w] = None]
    /\ UNCHANGED <<tableVars, now, registryVars, cancelled>>

\* -------------------------------------------------------- specifications
StatusArgs == {None} \cup {Some(l) : l \in StatusLists}

Setup ==
    \/ \E name \in WorkerNames, worker \in WorkerImpls : RegisterWorker(name, worker)
    \/ \E tags \in WorkerTags : Run(tags)

Maintenance ==
    \/ \E name \in Names : CancelJobsByName(name)
    \/ Clear
    \/ \E status \in StatusLists : ClearByStatus(status)
    \/ \E age_days \in AgeArgs, status \in StatusArgs : ClearJobsOlderThan(age_days, status)

Sweep == \E age_minutes \in AgeArgs : Requeue(age_minutes)

Worker(w, skews, outcomes) ==
    \/ CheckCancelled(w)
    \/ DequeueSelect(w)
    \/ DequeueCommit(w)
    \/ DequeueError(w)
    \/ \E utc_skew \in skews : CompleteJob(w, now + utc_skew)
    \/ \E outcome \in outcomes : FailJob(w, outcome)
    \/ TransitionError(w)
    \/ Sleep(w)

\* One job of any shape, two workers, every operation.
Producer ==
    /\ nextId <= MaxJobs
    /\ \E name \in WorkerNames, payload \in Payloads, run_at \in RunAts,
          interval \in Intervals, tags \in JobTags :
            Enqueue(name, payload, run_at, interval, tags)

Next ==
    \/ Tick
    \/ CancelToken
    \/ Setup
    \/ Producer
    \/ Maintenance
    \/ Sweep
    \/ \E w \in Workers : Worker(w, Skews, PerformOutcomes)
    \/ \E w \in Workers : Crash(w)

Spec == Init /\ [][Next]_vars

\* The pool under contention: several untagged one-shot jobs, with and
\* without a handler, the application clock in step with the database's.
PoolProducer ==
    /\ nextId <= MaxPoolJobs
    /\ \E name \in Names, run_at \in RunAts :
            Enqueue(name, "object", run_at, None, None)

PoolSetup ==
    \/ \E name \in WorkerNames : RegisterWorker(name, "W1")
    \/ Run(<<>>)

PoolNext ==
    \/ Tick
    \/ CancelToken
    \/ PoolSetup
    \/ PoolProducer
    \/ Maintenance
    \/ \E w \in Workers : Worker(w, {0}, {PerformOk, PerformErr})
    \/ \E w \in Workers : Crash(w)

\* The pool, no Requeue issued.
SpecClaim == Init /\ [][PoolNext]_vars

\* The pool with the orphan sweep.
SpecPool == Init /\ [][PoolNext \/ Sweep]_vars

\* Cancellation: the pool without the maintenance API, every worker task
\* scheduled again and again (its handlers and database calls return).
PoolWorker(w) == Worker(w, {0}, {PerformOk, PerformErr})

CancelNext ==
    \/ Tick
    \/ CancelToken
    \/ PoolSetup
    \/ PoolProducer
    \/ \E w \in Workers : PoolWorker(w)
    \/ \E w \in Workers : Crash(w)

SpecCancel ==
    /\ Init
    /\ [][CancelNext]_vars
    /\ \A w \in Workers : WF_vars(PoolWorker(w))

\* Progress: a working database (no call returns an error), handlers that
\* are registered before run and return, no cancellation, the application
\* clock in step with the database's, Requeue issued again and again.  The
\* first worker task keeps running; the others may be killed.
Survivor == 1

LiveSetup ==
    \/ \E name \in WorkerNames : RegisterWorker(name, "W1")
    \/ WorkerNames \subseteq DOMAIN handlers /\ Run(<<>>)

LiveProducer ==
    /\ nextId <= MaxPoolJobs
    /\ \E name \in WorkerNames, run_at \in RunAts, interval \in Intervals :
            Enqueue(name, "object", run_at, interval, None)

LiveWorker(w) ==
    \/ CheckCancelled(w)
    \/ DequeueSelect(w)
    \/ DequeueCommit(w)
    \/ CompleteJob(w, now)
    \/ \E outcome \in PerformOutcomes : FailJob(w, outcome)
    \/ Sleep(w)

LiveNext ==
    \/ Tick
    \/ LiveSetup
    \/ LiveProducer
    \/ Sweep
    \/ \E w \in Workers : LiveWorker(w)
    \/ \E w \in Workers \ {Survivor} : Crash(w)

SpecLive ==
    /\ Init
    /\ [][LiveNext]_vars
    /\ \A w \in Workers : WF_vars(LiveWorker(w))
    /\ \A age_minutes \in AgeArgs : WF_vars(Requeue(age_minutes))

\* Enqueue among all operations: a plain job, then jobs of any shape,
\* while the pool works and the maintenance API is called.
RichProducer ==
    /\ nextId <= MaxPoolJobs
    /\ IF nextId = 1
       THEN Enqueue("A", "object", 0, None, None)
       ELSE \E name \in WorkerNames, payload \in Payloads, run_at \in RunAts,
               interval \in Intervals, tags \in JobTags :
                 Enqueue(name, payload, run_at, interval, tags)

EnqueueNext ==
    \/ Tick
    \/ PoolSetup
    \/ RichProducer
    \/ Maintenance
    \/ Sweep
    \/ \E w \in Workers : PoolWorker(w)

SpecEnqueue == Init /\ [][EnqueueNext]_vars

\* ------------------------------------------------------------------ claims
Holders(id) == {w \in Workers : IsSome(wjob[w]) /\ Job(w).id = id}
Claimed(w) == wpc[w] = "update" /\ wpc'[w] \in {"handler", "check"}

\* C1: with no Requeue issued and one-shot jobs, under any interleaving of the
\* workers a row goes from Queued to Processing at most once (it never
\* returns to Queued), each such step is the commit of exactly one worker's
\* claim, a handler starts only with that step, and no two workers ever hold
\* the same job.
C1_ExactlyOnceClaim ==
    [][\A id \in Ids :
        /\ Cardinality(Holders(id)') <= 1
        /\ (id \in Ids' /\ rows[id].status # Queued) => rows'[id].status # Queued
        /\ (id \in Ids' /\ rows[id].status # Processing /\ rows'[id].status = Processing)
              => /\ rows[id].status = Queued
                 /\ Cardinality({w \in Holders(id) : Claimed(w)}) = 1
        /\ \A w \in Workers :
              (wpc[w] # "handler" /\ wpc'[w] = "handler" /\ Job(w).id = id)
                 => (rows[id].status = Queued /\ rows'[id].status = Processing)
    ]_vars

\* Two workers run the handlers of two different jobs at once.
C1_Witness ==
    \E w1, w2 \in Workers :
        /\ wpc[w1] = "handler" /\ wpc[w2] = "handler"
        /\ Job(w1).id # Job(w2).id
        /\ \A id \in {Job(w1).id, Job(w2).id} : id \in Ids /\ rows[id].status = Processing

\* The tags of a stored row as a set; a row without tags has none.
StoredTags(id) == IF IsSome(rows[id].tags) THEN SeqToSet(Unwrap(rows[id].tags)) ELSE {}

\* The routing rule: W and J share a tag, or W is empty and J is absent.
RoutingRule(W, id) ==
    \/ SeqToSet(W) \cap StoredTags(id) # {}
    \/ Len(W) = 0 /\ ~IsSome(rows[id].tags)

\* C2: for a worker with tag list W at its select, a queued, due, unlocked
\* row is one the select can return if and only if W and the row's stored
\* tags share a tag, or W is empty and the row has no tags; the row a worker
\* has selected satisfies the rule, so a worker without tags holds no tagged
\* row and a worker with tags holds no untagged row.
C2_TagRouting ==
    \A w \in Workers :
        /\ wpc[w] = "select" =>
              \A id \in Ids :
                  (rows[id].status = Queued /\ rows[id].run_at <= TxNow(w) /\ ~Locked(id))
                     => (id \in Eligible(w) <=> RoutingRule(wtags, id))
        /\ wpc[w] = "update" =>
              /\ Job(w).id \in Ids
              /\ RoutingRule(wtags, Job(w).id)
              /\ Len(wtags) = 0 => ~IsSome(rows[Job(w).id].tags)
              /\ Len(wtags) > 0 => IsSome(rows[Job(w).id].tags)

\* A worker with the tags z, y has selected a job with the tags x, y.
C2_Witness ==
    \E w \in Workers :
        /\ wpc[w] = "update"
        /\ wtags = <<"z", "y">>
        /\ rows[Job(w).id].tags = Some(<<"x", "y">>)

\* No queued row is due and routed to the worker.
NoCandidate(w) ==
    ~ \E id \in Ids :
        rows[id].status = Queued /\ rows[id].run_at <= TxNow(w) /\ RoutingRule(wtags, id)

\* What dequeue does apart from the value of updated_at: the commit of a
\* claim changes one row, from Queued and due to Processing; a dequeue
\* without a candidate selects nothing, and a dequeue that returns nothing
\* changes no row; no row is claimed before its run_at.
DequeueFrame(w) ==
    /\ Claimed(w) =>
          /\ Job(w).id \in Ids
          /\ Ids' = Ids
          /\ rows[Job(w).id].status = Queued
          /\ rows[Job(w).id].run_at <= TxNow(w)
          /\ TxNow(w) <= now
          /\ rows'[Job(w).id].status = Processing
          /\ \A id \in Ids \ {Job(w).id} : rows'[id] = rows[id]
    /\ (wpc[w] = "select" /\ NoCandidate(w)) => wpc'[w] # "update"
    /\ (wpc[w] = "select" /\ wpc'[w] = "sleep") => rows' = rows
    /\ \A id \in Ids \cap Ids' :
          (rows[id].status # Processing /\ rows'[id].status = Processing)
             => rows[id].run_at <= now

\* C3: a dequeue returns at most one job, whose row was Queued and due and is
\* Processing with updated_at not earlier than before once it returns; a
\* dequeue with no eligible row returns nothing and changes no row; a row
\* is never claimed before its run_at.
C3_DequeueContract ==
    [][\A w \in Workers :
        /\ DequeueFrame(w)
        /\ Claimed(w) => rows'[Job(w).id].updated_at >= rows[Job(w).id].updated_at
    ]_vars

\* The same with updated_at as the code sets it: NOW() of the claim
\* transaction, which is the time the transaction began.
C3_ClaimSetsTransactionTime ==
    [][\A w \in Workers :
        /\ DequeueFrame(w)
        /\ Claimed(w) => rows'[Job(w).id].updated_at = TxNow(w)
    ]_vars

\* C4: the death of a worker changes no row, so the row it had claimed stays
\* Processing; Requeue(age) moves every Processing row whose updated_at is
\* at least age minutes old to Queued, with its run_at (which has passed),
\* its name and its tags as they were, so that the row meets dequeue's
\* condition for the same workers as before.
C4_NoLostJobs ==
    [][/\ \A w \in Workers : (Live(w) /\ wpc'[w] = "dead") => rows' = rows
       /\ \A age \in AgeArgs :
             Requeue(age) =>
                \A id \in Ids :
                    (rows[id].status = Processing /\ rows[id].updated_at + age <= now)
                       => /\ rows'[id].status = Queued
                          /\ rows'[id].run_at = rows[id].run_at
                          /\ rows'[id].run_at <= now
                          /\ rows'[id].tags = rows[id].tags
                          /\ rows'[id].name = rows[id].name
                          /\ rows'[id].data = rows[id].data
    ]_vars

\* A worker has died, and a one-shot row nobody holds is Queued again: its
\* updated_at is later than its created_at, which only Requeue does to a
\* Queued one-shot row.
C4_Witness ==
    \E id \in Ids, w \in Workers :
        /\ wpc[w] = "dead"
        /\ Holders(id) = {}
        /\ rows[id].status = Queued
        /\ ~IsSome(rows[id].interval)
        /\ rows[id].updated_at > rows[id].created_at

Terminal == {Completed, Failed, Cancelled}

\* Worker w, which holds a job claimed from row id, ends its handler step.
Transitioned(w, id) == w \in Holders(id) /\ wpc[w] = "handler" /\ wpc'[w] = "check"

\* The step deletes rows through one of the Clear operations.
ClearStep ==
    \/ Clear
    \/ \E status \in StatusLists : ClearByStatus(status)
    \/ \E age_days \in AgeArgs, status \in StatusArgs : ClearJobsOlderThan(age_days, status)

\* C5 as stated: once Completed, Failed or Cancelled, a row's status never
\* changes; the row can only be deleted.
C5_TerminalIsTerminal ==
    [][\A id \in Ids :
        rows[id].status \in Terminal
           => (id \notin Ids' \/ rows'[id].status = rows[id].status)
    ]_vars

\* C5: a row that is Completed, Failed or Cancelled is never taken by
\* dequeue and never changed by CancelByName or Requeue, it is deleted only
\* by a Clear operation, and its status changes only by the Complete or Fail
\* of a worker that still holds a job claimed from it.
C5_TerminalUnlessHeld ==
    [][\A id \in Ids :
        rows[id].status \in Terminal =>
           /\ id \notin Ids' => ClearStep
           /\ (id \in Ids' /\ rows'[id].status # rows[id].status)
                 => \E w \in Workers : Transitioned(w, id)
           /\ \A w \in Workers : ~(Claimed(w) /\ Job(w).id = id)
           /\ \A name \in Names : CancelJobsByName(name) => rows'[id] = rows[id]
           /\ \A age \in AgeArgs : Requeue(age) => rows'[id] = rows[id]
    ]_vars

\* A row is Completed or Failed while a worker is still in the handler of a
\* job claimed from it.
C5_Witness ==
    \E id \in Ids, w \in Workers :
        /\ rows[id].status \in {Completed, Failed}
        /\ w \in Holders(id)
        /\ wpc[w] = "handler"

\* The edges of the lifecycle diagram.
Edges ==
    {<<Queued, Processing>>, <<Processing, Completed>>, <<Processing, Queued>>,
     <<Processing, Failed>>, <<Queued, Cancelled>>}

\* C6 as stated: every change of a row's status follows an edge of the
\* lifecycle diagram.
C6_LifecycleEdges ==
    [][\A id \in Ids \cap Ids' :
        rows'[id].status # rows[id].status
           => <<rows[id].status, rows'[id].status>> \in Edges
    ]_vars

\* C6: a change of a row's status is Queued to Processing by the commit of a
\* claim of that row, Queued to Cancelled by CancelByName, Processing to
\* Queued by Requeue, or the Complete or Fail of a worker that holds a job
\* claimed from the row, which writes Completed, Failed or (for a periodic
\* job) Queued whatever the status was.
C6_LifecycleByOperation ==
    [][\A id \in Ids \cap Ids' :
        rows'[id].status # rows[id].status =>
           \/ /\ rows[id].status = Queued /\ rows'[id].status = Processing
              /\ \E w \in Workers : Claimed(w) /\ Job(w).id = id
           \/ /\ rows[id].status = Queued /\ rows'[id].status = Cancelled
              /\ \E name \in Names : CancelJobsByName(name)
           \/ /\ rows[id].status = Processing /\ rows'[id].status = Queued
              /\ \E age \in AgeArgs : Requeue(age)
           \/ \E w \in Workers :
                 /\ Transitioned(w, id)
                 /\ rows'[id].status \in {Completed, Failed, Queued}
                 /\ rows'[id].status = Queued => IsSome(Job(w).interval)
    ]_vars

\* A one-shot row is Queued while a worker is still in the handler of a job
\* claimed from it.
C6_Witness ==
    \E id \in Ids, w \in Workers :
        /\ rows[id].status = Queued
        /\ ~IsSome(rows[id].interval)
        /\ w \in Holders(id)
        /\ wpc[w] = "handler"

\* C7: complete_job on a row that exists, whatever its status: a job without
\* interval becomes Completed with run_at = Utc::now(); a job with interval
\* I stays the same row and becomes Queued with run_at = Utc::now() + I; in
\* both cases updated_at = NOW() and no other row changes.  A select takes
\* no row before its run_at.
C7_CompleteTransition ==
    [][\A w \in Workers :
        /\ \A utc_skew \in Skews :
              (CompleteJob(w, now + utc_skew) /\ Job(w).id \in Ids) =>
                 /\ Ids' = Ids
                 /\ ~IsSome(Job(w).interval) =>
                       /\ rows'[Job(w).id].status = Completed
                       /\ rows'[Job(w).id].run_at = now + utc_skew
                 /\ IsSome(Job(w).interval) =>
                       /\ rows'[Job(w).id].status = Queued
                       /\ Job(w).interval = rows[Job(w).id].interval
                       /\ rows'[Job(w).id].run_at * MsPerMinute
                             = (now + utc_skew) * MsPerMinute + Unwrap(Job(w).interval)
                 /\ rows'[Job(w).id].updated_at = now
                 /\ \A id \in Ids \ {Job(w).id} : rows'[id] = rows[id]
        /\ (wpc[w] = "select" /\ wpc'[w] = "update")
              => rows[Unwrap(wjob'[w]).id].run_at <= now
    ]_vars

\* A periodic row has been completed: it is Queued, updated now and later
\* than it was created, and its run_at is still ahead.
C7_Witness ==
    \E id \in Ids :
        /\ IsSome(rows[id].interval)
        /\ rows[id].status = Queued
        /\ rows[id].updated_at = now
        /\ rows[id].updated_at > rows[id].created_at
        /\ rows[id].run_at > now

\* C8: a row with an interval is never Completed.
C8_PeriodicNeverCompleted ==
    \A id \in Ids : IsSome(rows[id].interval) => rows[id].status # Completed

\* A periodic row is Queued with a run_at later than any enqueue gives: it
\* has been rescheduled by a successful run.
C8_Witness ==
    \E id \in Ids :
        /\ IsSome(rows[id].interval)
        /\ rows[id].status = Queued
        /\ rows[id].run_at > MaxRunAt
        /\ Holders(id) = {}

\* C9: when perform panics (the payload deserialized), the handler's result
\* is an error with the panic's message, or the unknown-panic message for
\* another payload; the row becomes Failed with that message as its error,
\* and the worker goes on to the next iteration of its loop.
C9_PanicIsolation ==
    [][\A w \in Workers, outcome \in {PanicMsg, PanicOther} :
        (FailJob(w, outcome) /\ FromValueOk(Job(w).data)) =>
           /\ wpc'[w] = "check"
           /\ wjob'[w] = None
           /\ Job(w).id \in Ids =>
                 /\ rows'[Job(w).id].status = Failed
                 /\ rows'[Job(w).id].data.errors
                       = <<IF outcome = PanicMsg THEN PanicMsg ELSE UnknownPanic>>
    ]_vars

\* A row is Failed with the unknown-panic message, and no worker has ended:
\* the one whose handler panicked is in a dequeue again.
C9_Witness ==
    /\ \E id \in Ids :
          rows[id].status = Failed /\ rows[id].data.errors = <<UnknownPanic>>
    /\ \A w \in Workers : wpc[w] = "select"

\* What the Fail of worker w does when the payload does not deserialize
\* (whatever perform would do) or perform returns an error: the row becomes
\* Failed with updated_at = NOW() and the message as the last error of its
\* data; run_at and interval stay, also for a periodic job; no other row
\* changes.
FailPost(w) ==
    \A outcome \in {PerformOk, PerformErr} :
        (FailJob(w, outcome) /\ Job(w).id \in Ids) =>
           /\ Ids' = Ids
           /\ rows'[Job(w).id].status = Failed
           /\ rows'[Job(w).id].updated_at = now
           /\ Len(rows'[Job(w).id].data.errors) > 0
           /\ rows'[Job(w).id].data.errors[Len(rows'[Job(w).id].data.errors)]
                 = (IF Job(w).data.base = "object" THEN PerformErr ELSE DeserError)
           /\ rows'[Job(w).id].data.base = rows[Job(w).id].data.base
           /\ rows'[Job(w).id].run_at = rows[Job(w).id].run_at
           /\ rows'[Job(w).id].interval = rows[Job(w).id].interval
           /\ \A id \in Ids \ {Job(w).id} : rows'[id] = rows[id]

\* C10 as stated: Fail makes the row Failed with the error recorded, and a
\* Failed row, periodic or not, is never rescheduled (Queued) or claimed
\* (Processing) again.
C10_FailedForGood ==
    [][/\ \A w \in Workers : FailPost(w)
       /\ \A id \in Ids \cap Ids' :
             rows[id].status = Failed => rows'[id].status \notin {Queued, Processing}
    ]_vars

\* C10: Fail makes the row Failed with the error recorded and leaves run_at
\* and interval, also for a periodic job; dequeue selects only Queued rows
\* and no step takes a Failed row to Processing; a Failed row leaves Failed
\* only by the Complete of another worker that still holds a job claimed
\* from the row.
C10_FailTransition ==
    [][/\ \A w \in Workers :
             /\ FailPost(w)
             /\ (wpc[w] = "select" /\ wpc'[w] = "update")
                   => rows[Unwrap(wjob'[w]).id].status = Queued
       /\ \A id \in Ids \cap Ids' :
             (rows[id].status = Failed /\ rows'[id].status # Failed)
                => /\ rows'[id].status \in {Queued, Completed}
                   /\ \E w \in Workers : Transitioned(w, id)
    ]_vars

\* A periodic row whose payload did not deserialize is Failed with the
\* error recorded.
C10_Witness ==
    \E id \in Ids :
        /\ IsSome(rows[id].interval)
        /\ rows[id].status = Failed
        /\ rows[id].data.base = "null"
        /\ rows[id].data.errors = <<DeserError>>

\* C11: a worker whose claim commits for a job whose name has no handler
\* goes to the next iteration of its loop without the job, the row being
\* Processing; no worker is ever in a handler, and so at Complete or Fail,
\* for a name without handler; a Processing row of such a name stays
\* Processing until Requeue makes it Queued or a Clear operation deletes it.
C11_MissingHandler ==
    [][/\ \A w \in Workers :
             /\ (Claimed(w) /\ Job(w).name \notin DOMAIN handlers) =>
                   /\ wpc'[w] = "check"
                   /\ wjob'[w] = None
                   /\ rows'[Job(w).id].status = Processing
             /\ wpc'[w] = "handler" => Unwrap(wjob'[w]).name \in DOMAIN handlers'
       /\ \A id \in Ids :
             (rows[id].name \notin DOMAIN handlers /\ rows[id].status = Processing) =>
                \/ id \notin Ids' /\ ClearStep
                \/ id \in Ids' /\ rows'[id] = rows[id]
                \/ /\ id \in Ids'
                   /\ rows'[id].status = Queued
                   /\ \E age \in AgeArgs : Requeue(age)
    ]_vars

\* A row whose name has no handler is Processing, held by nobody, and every
\* worker is in a dequeue again: none has exited or died.
C11_Witness ==
    /\ \E id \in Ids :
          /\ rows[id].name \notin DOMAIN handlers
          /\ rows[id].status = Processing
          /\ Holders(id) = {}
    /\ \A w \in Workers : wpc[w] = "select"

\* C12: a worker in its sleep when the token is cancelled does not go on to
\* another iteration: its next step is its exit; and, the worker tasks
\* being scheduled, every worker that is running when the token is
\* cancelled, or starts afterwards, ends.
C12_CancelDuringSleep ==
    /\ [][\A w \in Workers :
            (wpc[w] = "sleep" /\ cancelled) => wpc'[w] \in {"sleep", "exited", "dead"}
         ]_vars
    /\ \A w \in Workers : (cancelled /\ Live(w)) ~> ~Live(w)

\* The token is cancelled while a worker is in its sleep and a queued, due
\* job it could claim is waiting.
C12_Witness ==
    \E w \in Workers, id \in Ids :
        /\ cancelled
        /\ wpc[w] = "sleep"
        /\ rows[id].status = Queued
        /\ rows[id].run_at <= now
        /\ RoutingRule(wtags, id)

\* C13: a worker in a handler, the token cancelled or not, leaves it only
\* by Complete or Fail (or their database error) and the next iteration of
\* the loop, never by its exit; unless the database call failed, the row,
\* if it still exists, is then not Processing; a worker that exits holds no
\* job; and a worker in a handler when the token is cancelled does finish
\* the handler.
C13_HandlerNotInterrupted ==
    /\ [][\A w \in Workers :
            /\ wpc[w] = "handler" =>
                  /\ wpc'[w] \in {"handler", "check", "dead"}
                  /\ wpc'[w] = "check" =>
                        \/ \E utc_skew \in Skews : CompleteJob(w, now + utc_skew)
                        \/ \E outcome \in PerformOutcomes : FailJob(w, outcome)
                        \/ TransitionError(w)
                  /\ (wpc'[w] = "check" /\ ~TransitionError(w) /\ Job(w).id \in Ids')
                        => rows'[Job(w).id].status # Processing
            /\ wpc'[w] = "exited" => wjob'[w] = None /\ wpc[w] \in {"check", "sleep", "exited"}
         ]_vars
    /\ \A w \in Workers : (cancelled /\ wpc[w] = "handler") ~> (wpc[w] # "handler")

\* The token is cancelled while a worker is in the handler of a job whose
\* row is Processing.
C13_Witness ==
    \E w \in Workers :
        /\ cancelled
        /\ wpc[w] = "handler"
        /\ Job(w).id \in Ids
        /\ rows[Job(w).id].status = Processing

\* C14: once the token is cancelled, no worker commits a claim or starts a
\* handler.
C14_NoClaimAfterCancel ==
    [][\A w \in Workers :
        cancelled => ~Claimed(w) /\ ~(wpc[w] # "handler" /\ wpc'[w] = "handler")
    ]_vars

\* C15: CancelByName(name) adds and deletes no row, makes every row of that
\* name that is Queued Cancelled with updated_at = NOW() and nothing else of
\* it changed, and leaves every other row (Processing, another status,
\* another name) as it was.
C15_CancelByNameFrame ==
    [][\A name \in Names :
        CancelJobsByName(name) =>
           /\ Ids' = Ids
           /\ \A id \in Ids :
                 IF rows[id].name = name /\ rows[id].status = Queued
                 THEN rows'[id] = [rows[id] EXCEPT !.status = Cancelled, !.updated_at = now]
                 ELSE rows'[id] = rows[id]
    ]_vars

\* A row is Cancelled after it was created while a row of the same name,
\* claimed no later than the cancellation, is Processing.
C15_Witness ==
    \E id, other \in Ids :
        /\ rows[id].status = Cancelled
        /\ rows[id].updated_at > rows[id].created_at
        /\ rows[other].name = rows[id].name
        /\ rows[other].status = Processing
        /\ rows[other].updated_at <= rows[id].updated_at

\* C16: Requeue(age) adds and deletes no row, makes every Processing row
\* with updated_at <= NOW() - age Queued with updated_at = NOW() and
\* nothing else of it changed, and leaves every other row (Processing and
\* updated more recently, or of another status) as it was.
C16_RequeueFrame ==
    [][\A age \in AgeArgs :
        Requeue(age) =>
           /\ Ids' = Ids
           /\ \A id \in Ids :
                 IF rows[id].status = Processing /\ rows[id].updated_at + age <= now
                 THEN rows'[id] = [rows[id] EXCEPT !.status = Queued, !.updated_at = now]
                 ELSE rows'[id] = rows[id]
    ]_vars

\* A one-shot row nobody touched since is Queued with updated_at = now,
\* later than its creation (it was requeued now), while another row is
\* Processing since the current minute.
C16_Witness ==
    \E id, other \in Ids :
        /\ rows[id].status = Queued
        /\ ~IsSome(rows[id].interval)
        /\ rows[id].updated_at = now
        /\ rows[id].updated_at > rows[id].created_at
        /\ rows[other].status = Processing
        /\ rows[other].updated_at = now

\* created_at is older than NOW() - age_days days.
OlderThan(id, age_days) == rows[id].created_at < now - age_days * MinutesPerDay

\* A clear_jobs_older_than step that deletes exactly the rows of Gone and
\* leaves the others as they were.
DeletesExactly(Gone) ==
    /\ Ids' = Ids \ Gone
    /\ \A id \in Ids' : rows'[id] = rows[id]

\* C17: ClearOlderThan(age_days, statuses) deletes exactly the rows older
\* than the threshold whose status is in the status set whenever a set is
\* given, of whatever size; without a set, every row older than the
\* threshold; the other rows stay as they were.
C17_ClearOlderThan ==
    [][\A age_days \in AgeArgs, status \in StatusArgs :
        ClearJobsOlderThan(age_days, status) =>
           DeletesExactly({id \in Ids :
               /\ OlderThan(id, age_days)
               /\ IsSome(status) => rows[id].status \in SeqToSet(Unwrap(status))})
    ]_vars

\* The same with the status set as the code takes it: an empty list is no
\* restriction.
C17_EmptyListIsNoFilter ==
    [][\A age_days \in AgeArgs, status \in StatusArgs :
        ClearJobsOlderThan(age_days, status) =>
           DeletesExactly({id \in Ids :
               /\ OlderThan(id, age_days)
               /\ (IsSome(status) /\ Unwrap(status) # <<>>)
                     => rows[id].status \in SeqToSet(Unwrap(status))})
    ]_vars

\* C18: ClearByStatus(statuses) deletes exactly the rows whose status is in
\* the list, none for the empty list, and leaves the others as they were;
\* Clear deletes every row.
C18_ClearByStatus ==
    [][/\ \A status \in StatusLists :
             ClearByStatus(status) =>
                /\ Ids' = {id \in Ids : rows[id].status \notin SeqToSet(status)}
                /\ \A id \in Ids' : rows'[id] = rows[id]
       /\ Clear => Ids' = {}
    ]_vars

\* The first row is gone at time 0, when no row is older than any
\* threshold, and the second, which is Processing and so in none of the
\* status lists, is still there.
C18_Witness ==
    /\ nextId > 2
    /\ now = 0
    /\ Ids = {2}
    /\ rows[2].status = Processing

\* C19: the row a worker's select returns has the least run_at of the
\* queued, due rows that match the worker's tags and that no other
\* transaction has locked: of two such rows the one with the earlier run_at
\* is claimed first.
C19_OrderingPreference ==
    [][\A w \in Workers :
        (wpc[w] = "select" /\ wpc'[w] = "update") =>
           \A other \in Ids :
               (/\ rows[other].status = Queued
                /\ rows[other].run_at <= TxNow(w)
                /\ RoutingRule(wtags, other)
                /\ ~Locked(other))
                  => rows[Unwrap(wjob'[w]).id].run_at <= rows[other].run_at
    ]_vars

\* A worker has selected a row while another row it could have selected,
\* with a later run_at, is queued and due.
C19_Witness ==
    \E w \in Workers, other \in Ids :
        /\ wpc[w] = "update"
        /\ rows[other].status = Queued
        /\ rows[other].run_at <= TxNow(w)
        /\ RoutingRule(wtags, other)
        /\ ~Locked(other)
        /\ rows[Job(w).id].run_at < rows[other].run_at

\* C20: the tags of every stored row are absent or a non-empty array.
C20_StoredTagsAbsentOrNonEmpty ==
    \A id \in Ids : ~IsSome(rows[id].tags) \/ Len(Unwrap(rows[id].tags)) > 0

\* C21: in every reachable state the updated_at of every row is not earlier
\* than its created_at.
C21_UpdatedNotBeforeCreated ==
    \A id \in Ids : rows[id].updated_at >= rows[id].created_at

\* The time each status change writes: Complete, Fail, CancelByName and
\* Requeue write the clock at their statement, the claim writes the time
\* its transaction began.
C21_StatusChangeStamps ==
    [][\A id \in Ids \cap Ids' :
        rows'[id].status # rows[id].status =>
           IF \E w \in Workers : Claimed(w) /\ Job(w).id = id
           THEN \E w \in Workers : Claimed(w) /\ rows'[id].updated_at = TxNow(w)
           ELSE rows'[id].updated_at = now
    ]_vars

\* The rows a worker's select may return: queued, due, matching its tags
\* and not locked by another transaction.
Claimable(w) ==
    {id \in Ids :
        /\ rows[id].status = Queued
        /\ rows[id].run_at <= TxNow(w)
        /\ RoutingRule(wtags, id)
        /\ LockedBy(id) \ {w} = {}}

\* C22: at most one worker holds an uncommitted claim on a row at any
\* instant; a worker's select is never blocked by another's lock: it
\* returns a row of least run_at among the rows it may return, none of
\* which is locked, or nothing when there is no such row.
C22_SkipLocked ==
    /\ [](\A id \in Ids : Cardinality(LockedBy(id)) <= 1)
    /\ [](\A w \in Workers : wpc[w] = "select" => ENABLED DequeueSelect(w))
    /\ [][\A w \in Workers :
            wpc[w] = "select" =>
               /\ wpc'[w] = "update" =>
                     /\ Unwrap(wjob'[w]).id \in Claimable(w)
                     /\ \A other \in Claimable(w) :
                           rows[Unwrap(wjob'[w]).id].run_at <= rows[other].run_at
               /\ (Claimable(w) = {} /\ wpc'[w] # "select") =>
                     wpc'[w] \in {"sleep", "dead"} /\ wjob'[w] = None /\ rows' = rows
       ]_vars

\* Two workers hold uncommitted claims at once, on different rows, and one
\* of them holds the row with the later run_at while the earlier row is
\* locked by the other.
C22_Witness ==
    \E w1, w2 \in Workers :
        /\ wpc[w1] = "update" /\ wpc[w2] = "update"
        /\ Job(w1).id # Job(w2).id
        /\ rows[Job(w1).id].run_at < rows[Job(w2).id].run_at
        /\ rows[Job(w1).id].run_at <= TxNow(w2)

\* C23: a worker task leaves its loop only at the top of the loop or in the
\* wait, and only when cancellation was signalled.  A claim that ends in a
\* database error leaves the table as it was and goes to the wait, which
\* ends in the next iteration; a handler that returned (with or without an
\* error or panic), a missing handler, and an error of complete_job or
\* fail_job are followed by the next iteration at once; the job's row is
\* then either written by Complete or Fail, or exactly as it was.
C23_LoopNeverPropagates ==
    [][\A w \in Workers :
        /\ (wpc[w] # "exited" /\ wpc'[w] = "exited") =>
              cancelled /\ wpc[w] \in {"check", "sleep"}
        /\ (wpc[w] \in {"select", "update"} /\ wpc'[w] = "sleep") => rows' = rows
        /\ (wpc[w] = "update" /\ wpc'[w] \notin {"update", "dead"}) =>
              wpc'[w] \in {"handler", "check", "sleep"}
        /\ (wpc[w] = "sleep" /\ wpc'[w] \notin {"sleep", "dead"}) =>
              wpc'[w] = IF cancelled THEN "exited" ELSE "check"
        /\ (wpc[w] = "handler" /\ wpc'[w] \notin {"handler", "dead"}) =>
              /\ wpc'[w] = "check"
              /\ Ids' = Ids
              /\ \A id \in Ids :
                    \/ rows'[id] = rows[id]
                    \/ id = Job(w).id /\ rows'[id].status \in {Completed, Failed, Queued}
    ]_vars

\* Workers run, none cancelled or dead, and a row with a registered handler
\* is Processing with no worker holding its job: complete_job or fail_job
\* returned an error and the worker went on.
C23_Witness ==
    /\ ~cancelled
    /\ \A w \in Workers : Live(w)
    /\ \E id \in Ids :
          /\ rows[id].status = Processing
          /\ rows[id].name \in DOMAIN handlers
          /\ Holders(id) = {}

\* C24 as stated: from the moment run has spawned the workers the
\* name-to-handler mapping never changes (here: as long as no worker task
\* was killed from outside).
C24_ReadOnlyOnceStarted ==
    [][(\A w \in Workers : wpc[w] \notin {"unspawned", "dead"}) => handlers' = handlers]_vars

\* C24: while a worker task spawned by run is alive the mapping does not
\* change (register_worker fails); while none is alive, before run and again
\* after every worker task has ended, register_worker succeeds for every
\* name: the name then maps to the worker given, whether or not it was
\* present, and the other entries are as they were.
C24_ReadOnlyWhileShared ==
    /\ [][/\ (\E w \in Workers : Live(w)) => handlers' = handlers
          /\ handlers' # handlers =>
                \E name \in WorkerNames, worker \in WorkerImpls :
                    handlers' = Insert(handlers, name, worker)
         ]_vars
    /\ []((\A w \in Workers : ~Live(w)) =>
            \A name \in WorkerNames, worker \in WorkerImpls :
                ENABLED (/\ RegisterWorker(name, worker)
                         /\ handlers'[name] = worker
                         /\ \A other \in DOMAIN handlers \ {name} :
                               handlers'[other] = handlers[other]))

\* Every worker task has left its loop after the cancellation and the
\* registry holds a handler again: register_worker is effective.
C24_Witness ==
    /\ cancelled
    /\ \A w \in Workers : wpc[w] = "exited"
    /\ "A" \in DOMAIN handlers
    /\ handlers["A"] = "W2"

\* C25: the run_at a successful run writes is the database's NOW(), plus the
\* interval for a periodic job, whatever the application's clock shows.
C25_RunAtFromDatabaseClock ==
    [][\A w \in Workers :
        (/\ wpc[w] = "handler" /\ wpc'[w] = "check"
         /\ Job(w).id \in Ids
         /\ rows'[Job(w).id] # rows[Job(w).id]
         /\ rows'[Job(w).id].status \in {Completed, Queued})
            => rows'[Job(w).id].run_at =
                  IF IsSome(Job(w).interval)
                  THEN now + Milliseconds(Unwrap(Job(w).interval))
                  ELSE now
    ]_vars

C27_EnqueueFrame ==
    [][/\ nextId' # nextId =>
           \A name \in Names, payload \in Payloads, run_at \in RunAts,
             interval \in Intervals, tags \in JobTags :
             Enqueue(name, payload, run_at, interval, tags) =>
                /\ nextId \notin Ids
                /\ Ids' = Ids \cup {nextId}
                /\ rows'[nextId].status = Queued
                /\ rows'[nextId].name = name
                /\ rows'[nextId].data = [base |-> payload, errors |-> <<>>]
                /\ rows'[nextId].run_at = run_at
                /\ rows'[nextId].interval =
                      IF IsSome(interval) THEN Some(Unwrap(interval) * MsPerMinute) ELSE None
                /\ rows'[nextId].tags = tags
                /\ rows'[nextId].created_at = now
                /\ rows'[nextId].updated_at = now
                /\ \A other \in Ids : rows'[other] = rows[other]
       /\ \A id \in Ids \cap Ids' : rows'[id].created_at = rows[id].created_at
       /\ \A id \in Ids' \ Ids : id = nextId /\ nextId' > nextId
       /\ \A id \in Ids : id < nextId
      ]_vars

\* A periodic, tagged job was enqueued after the first job had been run to
\* its end: both rows are in the table, each with its own created_at.
C27_Witness ==
    /\ Ids = {1, 2}
    /\ rows[1].status = Completed
    /\ rows[1].created_at = 0
    /\ rows[2].created_at = 1
    /\ rows[2].status = Queued
    /\ rows[2].interval = Some(MaxInterval * MsPerMinute)
    /\ rows[2].tags = Some(<<"x", "y">>)
    /\ rows[2].data.base = "null"

\* C28: a worker enters the wait only from a dequeue that claimed nothing
\* (no row, or a database error): the step changes no row and the worker
\* has no job.  A dequeue that claimed a row is followed by the handler, or
\* by the top of the loop when the handler is missing; a handler is
\* followed by the top of the loop; and from the top of the loop a worker
\* that is not cancelled goes into the next dequeue.
C28_BurstDrain ==
    [][\A w \in Workers :
        /\ (wpc[w] # "sleep" /\ wpc'[w] = "sleep") =>
              /\ wpc[w] \in {"select", "update"}
              /\ wjob'[w] = None
              /\ rows' = rows
        /\ (wpc[w] = "update" /\ wpc'[w] \notin {"update", "dead"}) =>
              IF rows' # rows THEN wpc'[w] \in {"handler", "check"} ELSE wpc'[w] = "sleep"
        /\ (wpc[w] = "handler" /\ wpc'[w] \notin {"handler", "dead"}) => wpc'[w] = "check"
        /\ (wpc[w] = "check" /\ ~cancelled /\ wpc'[w] \notin {"check", "dead"}) =>
              wpc'[w] = "select"
    ]_vars

\* One job has been run to its end and a worker has selected the next.
C28_Witness ==
    \E w \in Workers, id \in Ids :
        /\ wpc[w] = "update"
        /\ Job(w).id # id
        /\ rows[id].status \in {Completed, Failed}
        /\ now = 0

\* C29: a dequeue that ends in a database error, before or after its
\* select, changes no row; the worker has no job and no transaction and
\* goes to the wait; the row it had selected is Queued, with the updated_at
\* it had, and locked by nobody, so that it meets the select of every
\* matching worker whose transaction begins from then on.
C29_FailedClaimLeavesNoTrace ==
    [][\A w \in Workers :
        (wpc[w] \in {"select", "update"} /\ wpc'[w] = "sleep") =>
           /\ rows' = rows
           /\ wjob'[w] = None
           /\ wtx'[w] = None
           /\ wpc[w] = "update" =>
                 /\ Job(w).id \in Ids'
                 /\ rows'[Job(w).id].status = Queued
                 /\ rows'[Job(w).id].run_at <= now
                 /\ RoutingRule(wtags, Job(w).id)
                 /\ \A other \in Workers :
                       ~(wpc'[other] = "update" /\ Unwrap(wjob'[other]).id = Job(w).id)
    ]_vars

\* One worker is in the wait with nothing in hand while the other has
\* selected a row that is queued as it was enqueued.
C29_Witness ==
    \E w1, w2 \in Workers :
        /\ wpc[w1] = "sleep"
        /\ wjob[w1] = None
        /\ wpc[w2] = "update"
        /\ rows[Job(w2).id].status = Queued
        /\ rows[Job(w2).id].updated_at = rows[Job(w2).id].created_at
        /\ rows[Job(w2).id].run_at <= now

\* C30 as stated: a row that is Cancelled stays out of the queue: it never
\* becomes Queued or Processing again.
C30_CancelledStaysOut ==
    [][\A id \in Ids \cap Ids' :
        rows[id].status = Cancelled => rows'[id].status \notin {Queued, Processing}
    ]_vars

\* C30: the claim and CancelByName of one row are serialized by the row
\* lock.  CancelByName writes a row only if it is Queued and not locked by
\* an open claim, and makes it Cancelled; the commit of a claim writes a row
\* only if it is Queued, and makes it Processing; a select returns only a
\* Queued row; so a Cancelled row is never selected or made Processing, and
\* a claimed row is not cancelled.  A Cancelled row changes only by the
\* Complete or Fail of a worker that still holds a job claimed from it.
C30_ClaimCancelRace ==
    [][\A id \in Ids \cap Ids' :
        /\ (rows'[id].status = Cancelled /\ rows[id].status # Cancelled) =>
              /\ rows[id].status = Queued
              /\ ~Locked(id)
              /\ \A w \in Workers : wpc'[w] = wpc[w]
        /\ \A w \in Workers :
              /\ (Claimed(w) /\ Job(w).id = id) =>
                    rows[id].status = Queued /\ rows'[id].status = Processing
              /\ (wpc[w] = "select" /\ wpc'[w] = "update" /\ Unwrap(wjob'[w]).id = id) =>
                    rows[id].status = Queued
        /\ rows[id].status = Cancelled =>
              /\ rows'[id].status # Processing
              /\ rows'[id] # rows[id] => \E w \in Workers : Transitioned(w, id)
        /\ rows[id].status = Processing => rows'[id].status # Cancelled
    ]_vars

\* A row is Cancelled while a worker is in the handler of a job claimed
\* from it: the row went back to Queued by Requeue and was cancelled.
C30_Witness ==
    \E id \in Ids, w \in Workers :
        /\ rows[id].status = Cancelled
        /\ w \in Holders(id)
        /\ wpc[w] = "handler"

\* C31: when the row of a worker's job has been deleted, the end of its
\* handler (Complete or Fail) changes no row.  The set of rows changes only
\* by an enqueue, which adds one row under a fresh id, and by a Clear
\* operation, which removes rows and adds none: an id that was deleted
\* never comes back.
C31_NoResurrection ==
    [][/\ \A w \in Workers :
             (/\ wpc[w] = "handler" /\ wpc'[w] = "check"
              /\ Job(w).id \notin Ids) => rows' = rows
       /\ Ids' # Ids =>
             \/ /\ Ids' = Ids \cup {nextId}
                /\ nextId' = nextId + 1
                /\ \A w \in Workers : wpc'[w] = wpc[w]
             \/ /\ Ids' \subseteq Ids
                /\ ClearStep
       /\ \A id \in Ids : id < nextId
       /\ \A w \in Workers : IsSome(wjob[w]) => Job(w).id < nextId
      ]_vars

\* A worker is in the handler of a job whose row has been deleted.
C31_Witness ==
    \E w \in Workers :
        /\ wpc[w] = "handler"
        /\ Job(w).id \notin Ids

\* The tag lists a worker can be run with, over the tags in use.
AllWorkerTags ==
    {<<>>, <<"x">>, <<"y">>, <<"z">>, <<"x", "y">>, <<"z", "y">>, <<"x", "y", "z">>}

\* C32: every row that to_job reports as untagged meets the tag condition
\* of a worker without tags, and every row meets the tag condition of a
\* worker with some tag list.
C32_ClaimAgreesWithRead ==
    \A id \in Ids :
        /\ ~IsSome(ToJob(id, rows[id]).tags) => TagPredicate(<<>>, rows[id].tags)
        /\ \E worker_tags \in AllWorkerTags : TagPredicate(worker_tags, rows[id].tags)
====
